---------------------------- MODULE Spec2Model ----------------------------
(***************************************************************************)
(* Wren AI proxy server (src/main.py): one inbound request handled by one  *)
(* of the three routes, the upstream call it makes, and the response or    *)
(* the event stream the caller gets back.                                  *)
(*                                                                         *)
(* Texts (project_id, response bodies, error details, stream chunks) are   *)
(* sequences of lexemes: a lexeme is one character ("{", a quote, a        *)
(* space) or a run of letters or digits ("boom", "detail", "1").           *)
(***************************************************************************)
EXTENDS Integers, Sequences, FiniteSets, TLC

VARIABLES pc, req, sent, resp, out, up, received, clientOpen, respOpen,
          connected, ended

vars == <<pc, req, sent, resp, out, up, received, clientOpen, respOpen,
          connected, ended>>

(***************************************************************************)
(* Bounds of the model.                                                    *)
(***************************************************************************)
MaxPidLen == 2
MaxChunks == 3

(***************************************************************************)
(* Lexemes.                                                                *)
(***************************************************************************)
Q  == "\""
NL == "\n"
SP == " "
WS == {SP, NL}

(***************************************************************************)
(* Python values that end up in the outbound payload.                      *)
(***************************************************************************)
IntV(n) == [t |-> "int", i |-> n, s |-> ""]
StrV(x) == [t |-> "str", i |-> 0, s |-> x]
NullV   == [t |-> "null", i |-> 0, s |-> ""]

(***************************************************************************)
(* WrenRequest.project_id: Optional[str].  NonePid stands for None.        *)
(***************************************************************************)
PidChars   == {SP, "-", "0", "1", "a"}
PidStrings == UNION {[1..n -> PidChars] : n \in 0..MaxPidLen}
NonePid    == <<"None">>

\* str.strip()
RECURSIVE Strip(_)
Strip(s) ==
    IF s = <<>> THEN s
    ELSE IF Head(s) \in WS THEN Strip(Tail(s))
    ELSE IF s[Len(s)] \in WS THEN Strip(SubSeq(s, 1, Len(s) - 1))
    ELSE s

Digit(c) == IF c = "1" THEN 1 ELSE 0

\* the value of a run of decimal digits
RECURSIVE DigitsValue(_)
DigitsValue(s) ==
    IF s = <<>> THEN 0
    ELSE 10 * DigitsValue(SubSeq(s, 1, Len(s) - 1)) + Digit(s[Len(s)])

AllDigits(s) == s # <<>> /\ \A k \in 1..Len(s) : s[k] \in {"0", "1"}

\* int(s) succeeds: an optional sign, then decimal digits
IsIntLiteral(s) ==
    IF s # <<>> /\ Head(s) = "-" THEN AllDigits(Tail(s)) ELSE AllDigits(s)

\* int(s), for an s that IsIntLiteral
PyInt(s) ==
    IF Head(s) = "-" THEN 0 - DigitsValue(Tail(s)) ELSE DigitsValue(s)


(***************************************************************************)
(* JSON texts.  json.loads / response.json() accept a text when IsJson     *)
(* holds; the parsed value is kept in canonical form, the text without the *)
(* whitespace between its tokens (JsonLoads).                              *)
(***************************************************************************)
Scalars == {"1", "null"}

RECURSIVE SkipWs(_, _)
SkipWs(s, i) == IF i <= Len(s) /\ s[i] \in WS THEN SkipWs(s, i + 1) ELSE i

\* i: the index after an opening quote; the index after the closing quote,
\* 0 when the string is not terminated or holds a control character
RECURSIVE StringEnd(_, _)
StringEnd(s, i) ==
    IF i > Len(s) THEN 0
    ELSE IF s[i] = Q THEN i + 1
    ELSE IF s[i] = NL THEN 0
    ELSE StringEnd(s, i + 1)

\* the index after the JSON value that starts at i (after whitespace), or 0
RECURSIVE ValueEnd(_, _)
RECURSIVE ListRest(_, _)
RECURSIVE DictRest(_, _)
ValueEnd(s, i0) ==
    LET i == SkipWs(s, i0) IN
    IF i > Len(s) THEN 0
    ELSE IF s[i] = Q THEN StringEnd(s, i + 1)
    ELSE IF s[i] \in Scalars THEN i + 1
    ELSE IF s[i] = "[" THEN
        LET k == SkipWs(s, i + 1) IN
        IF k <= Len(s) /\ s[k] = "]" THEN k + 1 ELSE ListRest(s, i + 1)
    ELSE IF s[i] = "{" THEN
        LET k == SkipWs(s, i + 1) IN
        IF k <= Len(s) /\ s[k] = "}" THEN k + 1 ELSE DictRest(s, i + 1)
    ELSE 0

ListRest(s, i) ==
    LET j == ValueEnd(s, i) IN
    IF j = 0 THEN 0
    ELSE LET k == SkipWs(s, j) IN
         IF k > Len(s) THEN 0
         ELSE IF s[k] = "]" THEN k + 1
         ELSE IF s[k] = "," THEN ListRest(s, k + 1)
         ELSE 0

DictRest(s, i) ==
    LET k0 == SkipWs(s, i) IN
    IF k0 > Len(s) \/ s[k0] # Q THEN 0
    ELSE LET k1 == StringEnd(s, k0 + 1) IN
    IF k1 = 0 THEN 0
    ELSE LET k2 == SkipWs(s, k1) IN
    IF k2 > Len(s) \/ s[k2] # ":" THEN 0
    ELSE LET j == ValueEnd(s, k2 + 1) IN
    IF j = 0 THEN 0
    ELSE LET k == SkipWs(s, j) IN
         IF k > Len(s) THEN 0
         ELSE IF s[k] = "}" THEN k + 1
         ELSE IF s[k] = "," THEN DictRest(s, k + 1)
         ELSE 0

IsJson(s) == LET j == ValueEnd(s, 1) IN j # 0 /\ SkipWs(s, j) > Len(s)

RECURSIVE CanonFrom(_, _, _)
CanonFrom(s, i, inStr) ==
    IF i > Len(s) THEN <<>>
    ELSE IF inStr THEN <<s[i]>> \o CanonFrom(s, i + 1, s[i] # Q)
    ELSE IF s[i] \in WS THEN CanonFrom(s, i + 1, FALSE)
    ELSE <<s[i]>> \o CanonFrom(s, i + 1, s[i] = Q)

\* json.loads(s), for an s that IsJson
JsonLoads(s) == CanonFrom(s, 1, FALSE)

\* json.dumps(v): ", " and ": " between the tokens
RECURSIVE DumpsFrom(_, _, _)
DumpsFrom(v, i, inStr) ==
    IF i > Len(v) THEN <<>>
    ELSE IF inStr THEN <<v[i]>> \o DumpsFrom(v, i + 1, v[i] # Q)
    ELSE IF v[i] \in {",", ":"} THEN <<v[i], SP>> \o DumpsFrom(v, i + 1, FALSE)
    ELSE <<v[i]>> \o DumpsFrom(v, i + 1, v[i] = Q)

JsonDumps(v) == DumpsFrom(v, 1, FALSE)

Pad(d) == [k \in 1..(2 * d) |-> SP]

\* json.dumps(v, indent=2): one member per line, two spaces per level
RECURSIVE IndentFrom(_, _, _, _)
IndentFrom(v, i, d, inStr) ==
    IF i > Len(v) THEN <<>>
    ELSE IF inStr THEN <<v[i]>> \o IndentFrom(v, i + 1, d, v[i] # Q)
    ELSE IF v[i] \in {"{", "["} THEN
        IF v[i + 1] \in {"}", "]"}
        THEN <<v[i], v[i + 1]>> \o IndentFrom(v, i + 2, d, FALSE)
        ELSE <<v[i], NL>> \o Pad(d + 1) \o IndentFrom(v, i + 1, d + 1, FALSE)
    ELSE IF v[i] \in {"}", "]"} THEN
        <<NL>> \o Pad(d - 1) \o <<v[i]>> \o IndentFrom(v, i + 1, d - 1, FALSE)
    ELSE IF v[i] = "," THEN
        <<",", NL>> \o Pad(d) \o IndentFrom(v, i + 1, d, FALSE)
    ELSE IF v[i] = ":" THEN <<":", SP>> \o IndentFrom(v, i + 1, d, FALSE)
    ELSE <<v[i]>> \o IndentFrom(v, i + 1, d, v[i] = Q)

JsonDumpsIndent(v) == IndentFrom(v, 1, 0, FALSE)

\* dict.get(key, default) on a parsed object v; i is the index of a member's
\* opening quote or of the closing brace; the last member of that name wins
RECURSIVE DictGet(_, _, _, _)
DictGet(v, i, key, default) ==
    IF v[i] # Q THEN default
    ELSE LET ke == StringEnd(v, i + 1)
             je == ValueEnd(v, ke + 1)
         IN DictGet(v, IF v[je] = "," THEN je + 1 ELSE je, key,
                    IF SubSeq(v, i + 1, ke - 2) = key
                    THEN SubSeq(v, ke + 1, je - 1) ELSE default)

\* str(v) of a parsed scalar: a string is its characters, null is None
PyStr(v) ==
    IF v[1] = Q THEN SubSeq(v, 2, Len(v) - 1)
    ELSE IF v = <<"null">> THEN <<"None">>
    ELSE v

(***************************************************************************)
(* Response bodies the upstream is made to answer with.                    *)
(***************************************************************************)
Bodies ==
    { <<>>,
      <<"boom">>,
      <<"boom", SP, Q, "a", Q>>,
      <<"boom", NL, "boom">>,
      <<Q, "boom", Q>>,
      <<"[", "1", ",", "1", "]">>,
      <<"{", Q, "error", Q, ":", Q, "boom", Q, "}">>,
      <<"{", Q, "detail", Q, ":", Q, "boom", Q, "}">>,
      <<"{", SP, Q, "detail", Q, SP, ":", SP, "1", SP, "}">>,
      <<"{", Q, "detail", Q, ":", "null", "}">>,
      <<"{", Q, "detail", Q, ":", "{", Q, "a", Q, ":", "1", "}", "}">>,
      <<"{", Q, "detail", Q, ":", "[", "1", ",", "1", "]", "}">>,
      <<"{", Q, "detail", Q, ":", Q, "boom", Q>> }


(***************************************************************************)
(* Requests.  A relay request is the JSON body parsed into WrenRequest;    *)
(* request_data defaults to None, which is what a request without a body   *)
(* gives the handler (hasBody = FALSE).                                    *)
(***************************************************************************)
Texts   == {NullV, StrV("hi")}
APKeys  == {"projectId", "text", "extra"}
APs     == UNION {[K -> {StrV("x")}] : K \in SUBSET APKeys}
EmptyAP == [k \in {} |-> NullV]

RelayRequests ==
    {[route |-> r, hasBody |-> TRUE, project_id |-> p, text |-> t, ap |-> a] :
        r \in {"unary", "stream"}, p \in PidStrings \cup {NonePid},
        t \in Texts, a \in APs}
    \cup
    {[route |-> r, hasBody |-> FALSE, project_id |-> NonePid, text |-> NullV,
      ap |-> EmptyAP] : r \in {"unary", "stream"}}

ValidateRequests ==
    {[route |-> "validate", hasBody |-> FALSE, project_id |-> p,
      text |-> NullV, ap |-> EmptyAP] : p \in PidStrings}

Requests == RelayRequests \cup ValidateRequests

Statuses       == {200, 204, 302, 400, 401, 403, 404, 500}
StreamStatuses == {200, 302, 404, 500}
Chunks         == {<<"c1">>, <<"c2">>}
\* str(e) of a transport exception
FaultMsgs      == {"ConnectError", "ReadTimeout"}

WREN_BASE_URL == "https://cloud.getwren.ai/api/v1"
EndpointPath(route) == IF route = "stream" THEN "stream/ask" ELSE "generate_sql"

(***************************************************************************)
(* Caller-facing responses.                                                *)
(***************************************************************************)
NoResp == [kind |-> "none", status |-> 0, detail |-> <<>>, body |-> <<>>,
           media |-> ""]
HTTPException(status_code, detail) ==
    [kind |-> "http_error", status |-> status_code, detail |-> detail,
     body |-> <<>>, media |-> "application/json"]
JsonResponse(body) ==
    [kind |-> "json", status |-> 200, detail |-> <<>>, body |-> body,
     media |-> "application/json"]
StreamingResponse ==
    [kind |-> "stream", status |-> 200, detail |-> <<>>, body |-> <<>>,
     media |-> "text/event-stream"]
\* an exception no handler catches: the server's own 500 page
Unhandled ==
    [kind |-> "crash", status |-> 500, detail |-> <<"Internal Server Error">>,
     body |-> <<>>, media |-> "text/plain"]

RequiredMsg == <<"project_id is required in the request body.">>
IntegerMsg  == <<"project_id must be a valid integer.">>
\* the messages of lines 90, 117, 119, 121, 123 and 125, in English
InternalPrefix  == "internal server error: "
KeyInvalidMsg   == <<"API key failed validation or is invalid.">>
NoAccessMsg     == <<"API key has no access to this project id.">>
NoProjectMsg    == <<"project id does not exist or the key cannot reach it.">>
ValidatorPrefix == "Wren API request failed: "
NoContent ==
    <<"{", Q, "message", Q, ":", Q,
      "Operation successful, no content returned.", Q, "}">>

(***************************************************************************)
(* The checks and the payload of the two relay handlers.                   *)
(***************************************************************************)
\* mutant: the int() conversion is not guarded
CheckProjectIdNoInt(project_id) ==
    IF project_id = NonePid \/ project_id = <<>> \/ Strip(project_id) = <<>>
    THEN "required"
    ELSE "ok"

\* "required", "invalid" or "ok"
CheckProjectId(project_id) ==
    IF project_id = NonePid \/ project_id = <<>> \/ Strip(project_id) = <<>>
    THEN "required"
    ELSE IF ~IsIntLiteral(Strip(project_id)) THEN "invalid"
    ELSE "ok"

\* {"question": text, "text": text, **additional_payload, "projectId": n}
WrenPayload(text, additional_payload, project_id_int) ==
    ("projectId" :> IntV(project_id_int)) @@ additional_payload
        @@ [k \in {"question", "text"} |-> text]

\* the same two steps, as handle_wren_streaming_query writes them
StreamCheckProjectId(project_id) ==
    IF project_id = NonePid \/ project_id = <<>> \/ Strip(project_id) = <<>>
    THEN "required"
    ELSE IF ~IsIntLiteral(Strip(project_id)) THEN "invalid"
    ELSE "ok"

\* mutant: projectId is set before additional_payload is merged
PayloadCallerWins(text, additional_payload, project_id_int) ==
    additional_payload @@ ("projectId" :> IntV(project_id_int))
        @@ [k \in {"question", "text"} |-> text]

StreamWrenPayload(text, additional_payload, project_id_int) ==
    ("projectId" :> IntV(project_id_int)) @@ additional_payload
        @@ [k \in {"question", "text"} |-> text]

Call(method, url, payload) == [method |-> method, url |-> url, payload |-> payload]

(***************************************************************************)
(* async_wren_call: what the caller gets for an upstream answer.           *)
(***************************************************************************)
\* response.raise_for_status() raises
IsErrorStatus(status) == ~(200 <= status /\ status < 300)

Missing == <<"<missing>">>

\* mutant: the detail field is never looked up
DisplayDetailRaw(error_content) == error_content

DisplayDetail(error_content) ==
    IF ~IsJson(error_content) THEN error_content
    ELSE LET error_data == JsonLoads(error_content) IN
         IF error_data[1] # "{" THEN error_content
         ELSE LET error_detail == DictGet(error_data, 2, <<"detail">>, Missing) IN
              IF error_detail = Missing THEN error_content
              ELSE IF error_detail[1] \in {"{", "["} THEN JsonDumps(error_detail)
              ELSE PyStr(error_detail)

WrenFailed(method, status) ==
    <<"Wren API Request Failed (Method: ", method, ", Status: ",
      ToString(status), "): ">>

StatusError(method, status, text) ==
    HTTPException(status, WrenFailed(method, status) \o DisplayDetail(text))

\* mutant: a transport failure reported in the upstream-failure form
InternalErrorAsUpstream(msg) ==
    HTTPException(500, <<"Wren API Request Failed (Method: ", "POST",
                         ", Status: ", "500", "): ", msg>>)

InternalError(msg) == HTTPException(500, <<InternalPrefix, msg>>)

WrenCallResult(method, status, content) ==
    IF IsErrorStatus(status) THEN StatusError(method, status, content)
    ELSE IF status = 204 \/ content = <<>> THEN JsonResponse(NoContent)
    ELSE IF IsJson(content) THEN JsonResponse(JsonLoads(content))
    ELSE InternalError("JSONDecodeError")

(***************************************************************************)
(* validate_api_key_and_project: what the caller gets for an answer.       *)
(***************************************************************************)
\* mutant: the 403 branch is missing
ValidateStatusErrorNo403(status, text) ==
    IF status = 401 THEN HTTPException(401, KeyInvalidMsg)
    ELSE IF status = 404 THEN HTTPException(404, NoProjectMsg)
    ELSE HTTPException(status, <<ValidatorPrefix>> \o text)

ValidateStatusError(status, text) ==
    IF status = 401 THEN HTTPException(401, KeyInvalidMsg)
    ELSE IF status = 403 THEN HTTPException(403, NoAccessMsg)
    ELSE IF status = 404 THEN HTTPException(404, NoProjectMsg)
    ELSE HTTPException(status, <<ValidatorPrefix>> \o text)

ValidateResult(status, content) ==
    IF IsErrorStatus(status) THEN ValidateStatusError(status, content)
    ELSE IF IsJson(content) THEN JsonResponse(JsonLoads(content))
    ELSE InternalError("JSONDecodeError")

(***************************************************************************)
(* stream_wren_response: the frames of its two exception handlers.         *)
(***************************************************************************)
EventError == "event: error\ndata: "

StatusErrorFrame(text) ==
    LET display_error ==
            IF IsJson(text)
            THEN JsonDumpsIndent(<<"{", Q, "error", Q, ":">> \o JsonLoads(text)
                                 \o <<"}">>)
            ELSE <<"{", Q, "error", Q, ":", SP, Q>> \o text \o <<Q, "}">>
    IN <<EventError>> \o display_error \o <<NL, NL>>

ExceptionFrame(msg) ==
    <<EventError, "Internal Server Error: ", msg, NL, NL>>

\* mutant: the newest element is put first
YieldFront(stream, chunk) == <<chunk>> \o stream

\* yield
Yield(stream, chunk) == Append(stream, chunk)


(***************************************************************************)
(* State.                                                                  *)
(*   pc          where the request's handler or generator stands           *)
(*   req         the inbound request                                       *)
(*   sent        the calls made to the upstream, in order                  *)
(*   resp        the response the caller got (NoResp before it)            *)
(*   out         what the streaming generator has yielded, in order        *)
(*   up          the upstream's answer: status, body (once read), fault    *)
(*   received    the chunks the upstream has emitted, in order             *)
(*   clientOpen  the httpx.AsyncClient of the request is open              *)
(*   respOpen    the streamed upstream response is open                    *)
(*   connected   the caller is still connected to the stream               *)
(*   ended       how the generator ended                                   *)
(***************************************************************************)
NoAnswer == [status |-> 0, body |-> <<>>, read |-> FALSE, fault |-> "none"]

Init ==
    /\ pc = "start"
    /\ req \in Requests
    /\ sent = <<>>
    /\ resp = NoResp
    /\ out = <<>>
    /\ up = NoAnswer
    /\ received = <<>>
    /\ clientOpen = FALSE
    /\ respOpen = FALSE
    /\ connected = TRUE
    /\ ended = ""

StreamVars == <<out, received, respOpen, connected, ended>>

(***************************************************************************)
(* Route 2: POST /api/wren-call/{endpoint_path}                            *)
(***************************************************************************)
\* handle_wren_query up to the await of the upstream call
handle_wren_query ==
    /\ pc = "start"
    /\ req.route = "unary"
    /\ IF ~req.hasBody
       THEN /\ resp' = Unhandled
            /\ pc' = "done"
            /\ UNCHANGED <<sent, clientOpen>>
       ELSE IF CheckProjectId(req.project_id) = "required"
       THEN /\ resp' = HTTPException(400, RequiredMsg)
            /\ pc' = "done"
            /\ UNCHANGED <<sent, clientOpen>>
       ELSE IF CheckProjectId(req.project_id) = "invalid"
       THEN /\ resp' = HTTPException(400, IntegerMsg)
            /\ pc' = "done"
            /\ UNCHANGED <<sent, clientOpen>>
       ELSE /\ sent' = Append(sent,
                  Call("POST", <<WREN_BASE_URL, "/", EndpointPath(req.route)>>,
                       WrenPayload(req.text, req.ap,
                                   PyInt(Strip(req.project_id)))))
            /\ clientOpen' = TRUE
            /\ pc' = "u_wait"
            /\ UNCHANGED resp
    /\ UNCHANGED <<req, up>>
    /\ UNCHANGED StreamVars

\* async_wren_call: the upstream answers
async_wren_call_response ==
    /\ pc = "u_wait"
    /\ \E status \in Statuses, content \in Bodies :
          /\ up' = [status |-> status, body |-> content, read |-> TRUE,
                   fault |-> "none"]
          /\ resp' = WrenCallResult(sent[Len(sent)].method, status, content)
    /\ clientOpen' = FALSE
    /\ pc' = "done"
    /\ UNCHANGED <<req, sent>>
    /\ UNCHANGED StreamVars

\* async_wren_call: the call fails in transport
async_wren_call_transport_error ==
    /\ pc = "u_wait"
    /\ \E msg \in FaultMsgs :
          /\ up' = [NoAnswer EXCEPT !.fault = "transport"]
          /\ resp' = InternalError(msg)
    /\ clientOpen' = FALSE
    /\ pc' = "done"
    /\ UNCHANGED <<req, sent>>
    /\ UNCHANGED StreamVars

(***************************************************************************)
(* Route 1: GET /api/validate-key                                          *)
(***************************************************************************)
validate_api_key_and_project ==
    /\ pc = "start"
    /\ req.route = "validate"
    /\ sent' = Append(sent,
          Call("GET", <<WREN_BASE_URL, "/projects/">> \o Strip(req.project_id),
               EmptyAP))
    /\ clientOpen' = TRUE
    /\ pc' = "v_wait"
    /\ UNCHANGED <<req, resp, up>>
    /\ UNCHANGED StreamVars

validate_response ==
    /\ pc = "v_wait"
    /\ \E status \in Statuses, content \in Bodies :
          /\ up' = [status |-> status, body |-> content, read |-> TRUE,
                   fault |-> "none"]
          /\ resp' = ValidateResult(status, content)
    /\ clientOpen' = FALSE
    /\ pc' = "done"
    /\ UNCHANGED <<req, sent>>
    /\ UNCHANGED StreamVars

validate_transport_error ==
    /\ pc = "v_wait"
    /\ \E msg \in FaultMsgs :
          /\ up' = [NoAnswer EXCEPT !.fault = "transport"]
          /\ resp' = InternalError(msg)
    /\ clientOpen' = FALSE
    /\ pc' = "done"
    /\ UNCHANGED <<req, sent>>
    /\ UNCHANGED StreamVars

(***************************************************************************)
(* Route 3: POST /api/stream-call/{endpoint_path}                          *)
(***************************************************************************)
\* handle_wren_streaming_query: the checks, then the StreamingResponse
\* around the generator, which has not run yet
handle_wren_streaming_query ==
    /\ pc = "start"
    /\ req.route = "stream"
    /\ IF ~req.hasBody
       THEN resp' = Unhandled /\ pc' = "done"
       ELSE IF StreamCheckProjectId(req.project_id) = "required"
       THEN resp' = HTTPException(400, RequiredMsg) /\ pc' = "done"
       ELSE IF StreamCheckProjectId(req.project_id) = "invalid"
       THEN resp' = HTTPException(400, IntegerMsg) /\ pc' = "done"
       ELSE resp' = StreamingResponse /\ pc' = "s_start"
    /\ UNCHANGED <<req, sent, up, clientOpen>>
    /\ UNCHANGED StreamVars

\* the generator's first step: the client is entered and the POST is sent
stream_open ==
    /\ pc = "s_start"
    /\ connected
    /\ clientOpen' = TRUE
    /\ sent' = Append(sent,
          Call("POST", <<WREN_BASE_URL, "/", EndpointPath(req.route)>>,
               StreamWrenPayload(req.text, req.ap, PyInt(Strip(req.project_id)))))
    /\ pc' = "s_open"
    /\ UNCHANGED <<req, resp, up>>
    /\ UNCHANGED StreamVars

\* the upstream's status line and headers arrive
stream_headers ==
    /\ pc = "s_open"
    /\ connected
    /\ \E status \in StreamStatuses :
          /\ up' = [up EXCEPT !.status = status]
          /\ pc' = IF status >= 400 THEN "s_aread" ELSE "s_iter"
    /\ respOpen' = TRUE
    /\ UNCHANGED <<req, sent, resp, clientOpen, out, received, connected, ended>>

\* mutant: there is no "except Exception": the exception leaves the generator
stream_exception_raised(kind) ==
    /\ up' = [up EXCEPT !.fault = kind]
    /\ respOpen' = FALSE
    /\ clientOpen' = FALSE
    /\ ended' = "raised"
    /\ pc' = "done"
    /\ UNCHANGED <<req, sent, resp, out, received, connected>>

\* an exception lands in "except Exception": the response is left, the
\* frame is yielded and the generator is suspended inside the client
stream_exception(kind) ==
    /\ \E msg \in FaultMsgs : out' = Yield(out, ExceptionFrame(msg))
    /\ up' = [up EXCEPT !.fault = kind]
    /\ respOpen' = FALSE
    /\ pc' = "s_yield_err"
    /\ UNCHANGED <<req, sent, resp, clientOpen, received, connected, ended>>

\* client.stream(...) fails to connect
stream_connect_error ==
    /\ pc = "s_open"
    /\ connected
    /\ stream_exception("connect")

\* status >= 400: response.aread() reads the body, raise_for_status() raises
stream_aread ==
    /\ pc = "s_aread"
    /\ connected
    /\ \E content \in Bodies :
          /\ up' = [up EXCEPT !.body = content, !.read = TRUE]
          /\ out' = Yield(out, StatusErrorFrame(content))
    /\ respOpen' = FALSE
    /\ pc' = "s_yield_err"
    /\ UNCHANGED <<req, sent, resp, clientOpen, received, connected, ended>>

\* response.aread() fails
stream_aread_error ==
    /\ pc = "s_aread"
    /\ connected
    /\ stream_exception("aread")

\* aiter_bytes() gives the next chunk, which is yielded
stream_chunk ==
    /\ pc = "s_iter"
    /\ connected
    /\ Len(received) < MaxChunks
    /\ \E chunk \in Chunks :
          /\ received' = Append(received, chunk)
          /\ out' = Yield(out, chunk)
    /\ pc' = "s_yielded"
    /\ UNCHANGED <<req, sent, resp, up, clientOpen, respOpen, connected, ended>>

\* the consumer asks for the next element after a chunk
stream_next ==
    /\ pc = "s_yielded"
    /\ connected
    /\ pc' = "s_iter"
    /\ UNCHANGED <<req, sent, resp, up, clientOpen>>
    /\ UNCHANGED StreamVars

\* the upstream closes normally: both "async with" blocks are left
stream_close ==
    /\ pc = "s_iter"
    /\ connected
    /\ respOpen' = FALSE
    /\ clientOpen' = FALSE
    /\ ended' = "normal"
    /\ pc' = "done"
    /\ UNCHANGED <<req, sent, resp, up, out, received, connected>>

\* the read of the next chunk fails (transport fault, timeout)
stream_read_error ==
    /\ pc = "s_iter"
    /\ connected
    /\ stream_exception("read")

\* the consumer asks for the next element after the error frame: the
\* handler ends, the client is left and the generator is exhausted
stream_error_end ==
    /\ pc = "s_yield_err"
    /\ connected
    /\ clientOpen' = FALSE
    /\ ended' = "error"
    /\ pc' = "done"
    /\ UNCHANGED <<req, sent, resp, up, out, received, respOpen, connected>>

StreamPcs == {"s_start", "s_open", "s_aread", "s_iter", "s_yielded",
              "s_yield_err"}

\* the caller goes away: the task that iterates the generator is cancelled
caller_disconnect ==
    /\ pc \in StreamPcs
    /\ connected
    /\ connected' = FALSE
    /\ UNCHANGED <<pc, req, sent, resp, up, clientOpen, out, received,
                   respOpen, ended>>

\* mutant: the client is not inside an "async with"
stream_cancelled_leak ==
    /\ pc \in StreamPcs
    /\ ~connected
    /\ respOpen' = FALSE
    /\ ended' = "cancelled"
    /\ pc' = "done"
    /\ UNCHANGED <<req, sent, resp, up, out, received, connected, clientOpen>>

\* CancelledError or GeneratorExit is raised where the generator stands:
\* no handler catches it, both "async with" blocks are left
stream_cancelled ==
    /\ pc \in StreamPcs
    /\ ~connected
    /\ respOpen' = FALSE
    /\ clientOpen' = FALSE
    /\ ended' = "cancelled"
    /\ pc' = "done"
    /\ UNCHANGED <<req, sent, resp, up, out, received, connected>>

Next ==
    \/ handle_wren_query
    \/ async_wren_call_response
    \/ async_wren_call_transport_error
    \/ validate_api_key_and_project
    \/ validate_response
    \/ validate_transport_error
    \/ handle_wren_streaming_query
    \/ stream_open
    \/ stream_headers
    \/ stream_connect_error
    \/ stream_aread
    \/ stream_aread_error
    \/ stream_chunk
    \/ stream_next
    \/ stream_close
    \/ stream_read_error
    \/ stream_error_end
    \/ caller_disconnect
    \/ stream_cancelled

Spec == Init /\ [][Next]_vars

\* the event loop runs the cancellation of a stream whose caller has gone
FairSpec == Spec /\ WF_vars(stream_cancelled)


(***************************************************************************)
(* Properties.                                                             *)
(***************************************************************************)
IsRelay == req.route \in {"unary", "stream"}
IsErrorFrame(f) == f # <<>> /\ f[1] = EventError
PidMissing ==
    \/ ~req.hasBody
    \/ req.project_id = NonePid
    \/ \A k \in 1..Len(req.project_id) : req.project_id[k] \in WS
PidIsInteger == ~PidMissing /\ IsIntLiteral(Strip(req.project_id))

\* C1: while the upstream of a streaming request has answered with a status
\* below 400 and has not failed, the generator's output is exactly the chunks
\* received so far, in order; after a normal close it is all of them and
\* nothing else (no error frame).
C1_ChunksVerbatim ==
    (req.route = "stream" /\ up.status # 0 /\ up.status < 400
        /\ up.fault = "none")
    => /\ out = received
       /\ (ended = "normal" => pc = "done")

C1_Witness ==
    /\ req.route = "stream"
    /\ ended = "normal"
    /\ Len(out) = 3
    /\ out[1] # out[2]

\* C2: when the upstream of a streaming request answers with a status >= 400
\* and its body B has been read, the response is 200 text/event-stream and
\* the output is exactly one frame "event: error\ndata: D\n\n" whose D is the
\* JSON object {"error": <parsed B>} when B is JSON, and otherwise the JSON
\* object whose "error" member is the string B.
C2_StatusErrorFrame ==
    (req.route = "stream" /\ up.status >= 400 /\ up.read /\ up.fault = "none")
    => /\ resp.status = 200
       /\ resp.media = "text/event-stream"
       /\ received = <<>>
       /\ Len(out) = 1
       /\ IsErrorFrame(out[1])
       /\ SubSeq(out[1], Len(out[1]) - 1, Len(out[1])) = <<NL, NL>>
       /\ LET D == SubSeq(out[1], 2, Len(out[1]) - 2) IN
          /\ IsJson(D)
          /\ JsonLoads(D) =
                <<"{", Q, "error", Q, ":">>
                \o (IF IsJson(up.body) THEN JsonLoads(up.body)
                    ELSE <<Q>> \o up.body \o <<Q>>)
                \o <<"}">>

\* C3: once the upstream of a streaming request has failed (on connect, while
\* the error body is read, or while a chunk is read), the caller still has
\* the streaming response, the output is the chunks received followed by
\* exactly one error frame, and the generator, if the caller stays, ends
\* normally after that frame.
C3_ErrorFrameLast ==
    (req.route = "stream" /\ up.fault # "none")
    => /\ resp = StreamingResponse
       /\ Len(out) = Len(received) + 1
       /\ SubSeq(out, 1, Len(received)) = received
       /\ IsErrorFrame(out[Len(out)])
       /\ \A k \in 1..Len(received) : ~IsErrorFrame(out[k])
       /\ ended \in {"", "error", "cancelled"}
       /\ (pc = "done" /\ connected => ended = "error")

C3_Witness ==
    /\ req.route = "stream"
    /\ up.fault = "read"
    /\ Len(received) = 2
    /\ ended = "error"

\* C4: on both relay routes a request whose project_id is missing, empty or
\* blank gets 400 "project_id is required", one whose project_id is no
\* integer gets 400 "project_id must be a valid integer", and neither makes
\* an upstream call.
C4_Rejected ==
    (IsRelay /\ pc # "start")
    => /\ (PidMissing => resp = HTTPException(400, RequiredMsg) /\ sent = <<>>)
       /\ (~PidMissing /\ ~PidIsInteger
            => resp = HTTPException(400, IntegerMsg) /\ sent = <<>>)

\* C5: every payload a relay route sends is {question: text, text: text}
\* with additional_payload merged over it and projectId then set to the
\* integer value of project_id, whatever additional_payload holds, on the
\* unary and the streaming route alike.
C5_PayloadShape ==
    \A k \in 1..Len(sent) :
        IsRelay =>
        LET p == sent[k].payload IN
        /\ DOMAIN p = {"question", "text", "projectId"} \cup DOMAIN req.ap
        /\ p["projectId"] = IntV(PyInt(Strip(req.project_id)))
        /\ \A key \in DOMAIN req.ap \ {"projectId"} : p[key] = req.ap[key]
        /\ \A key \in {"question", "text"} \ DOMAIN req.ap : p[key] = req.text

C5_Witness ==
    /\ req.route = "stream"
    /\ Len(sent) = 1
    /\ {"projectId", "text"} \subseteq DOMAIN req.ap
    /\ sent[1].payload["projectId"] = IntV(11)

\* C6: on the unary route an upstream answer with a non-2xx status S gives
\* the caller one error of status S whose detail is "Wren API Request Failed
\* (Method: POST, Status: S): " followed by the detail member of the JSON
\* body (as JSON text when it is an object or a list), or by the raw body
\* when the body is no JSON object or has no detail member.
C6_StatusError ==
    (req.route = "unary" /\ pc = "done" /\ up.read /\ ~(up.status \in 200..299))
    => LET B == up.body
           d == SubSeq(resp.detail, 6, Len(resp.detail))
           det == IF IsJson(B) /\ JsonLoads(B)[1] = "{"
                  THEN DictGet(JsonLoads(B), 2, <<"detail">>, Missing)
                  ELSE Missing
       IN /\ resp.kind = "http_error"
          /\ resp.status = up.status
          /\ SubSeq(resp.detail, 1, 5) =
                <<"Wren API Request Failed (Method: ", sent[1].method,
                  ", Status: ", ToString(up.status), "): ">>
          /\ sent[1].method = "POST"
          /\ IF det = Missing THEN d = B
             ELSE IF det[1] \in {"{", "["} THEN IsJson(d) /\ JsonLoads(d) = det
             ELSE IF det[1] = Q THEN d = SubSeq(det, 2, Len(det) - 1)
             ELSE IF det = <<"null">> THEN d = <<"None">>
             ELSE d = det

C6_Witness ==
    /\ req.route = "unary"
    /\ pc = "done"
    /\ up.status = 500
    /\ up.body = <<"{", Q, "detail", Q, ":", "{", Q, "a", Q, ":", "1", "}", "}">>
    /\ resp.status = 500

\* C7: the validator makes one GET to the project's resource; a 2xx answer
\* with a JSON body returns that body, 401, 403 and 404 give the same status
\* with their own message, any other non-2xx status S gives S with the
\* upstream's body text.
C7_ValidatorMapping ==
    (req.route = "validate" /\ pc # "start")
    => /\ Len(sent) = 1
       /\ sent[1].method = "GET"
       /\ sent[1].url = <<WREN_BASE_URL, "/projects/">> \o Strip(req.project_id)
       /\ (up.read /\ up.status \in 200..299 /\ IsJson(up.body)
            => resp.kind = "json" /\ resp.body = JsonLoads(up.body))
       /\ (up.read /\ ~(up.status \in 200..299)
            => /\ resp.kind = "http_error"
               /\ resp.status = up.status
               /\ resp.detail =
                    CASE up.status = 401 -> KeyInvalidMsg
                      [] up.status = 403 -> NoAccessMsg
                      [] up.status = 404 -> NoProjectMsg
                      [] OTHER -> <<ValidatorPrefix>> \o up.body)

C7_Witness ==
    /\ req.route = "validate"
    /\ pc = "done"
    /\ up.status = 403
    /\ resp.status = 403

\* C8: on the unary and the validation route a transport failure of the
\* upstream call gives the caller an HTTP error of status 500 with the
\* internal-error message, which no upstream-reported failure produces.
C8_TransportError ==
    (req.route \in {"unary", "validate"} /\ up.fault = "transport")
    => /\ pc = "done"
       /\ resp.kind = "http_error"
       /\ resp.status = 500
       /\ resp.detail[1] = InternalPrefix
       /\ \A status \in Statuses, content \in Bodies :
            IsErrorStatus(status)
            => /\ resp # StatusError("POST", status, content)
               /\ resp # ValidateStatusError(status, content)

C8_Witness ==
    /\ req.route = "unary"
    /\ up.fault = "transport"
    /\ resp.status = 500

\* C9 as stated: every payload sent upstream carries a projectId > 0, and a
\* project_id whose integer value is not positive is answered with 400 and
\* not forwarded.
C9_PositiveOnly ==
    /\ \A k \in 1..Len(sent) : IsRelay => sent[k].payload["projectId"].i > 0
    /\ (IsRelay /\ pc # "start" /\ PidIsInteger
          /\ PyInt(Strip(req.project_id)) <= 0)
       => (resp.status = 400 /\ sent = <<>>)

\* C9 as amended: a relay call is forwarded only when project_id, trimmed,
\* is a non-empty integer literal of either sign; the payload then carries
\* that integer, and a project_id of zero or below is accepted, not rejected
\* by the relay's own 400.
C9_IntegerOnly ==
    /\ \A k \in 1..Len(sent) :
          IsRelay => /\ PidIsInteger
                     /\ sent[k].payload["projectId"].t = "int"
                     /\ sent[k].payload["projectId"].i
                          = PyInt(Strip(req.project_id))
    /\ (IsRelay /\ pc # "start" /\ PidIsInteger)
       => /\ resp \notin {HTTPException(400, RequiredMsg),
                          HTTPException(400, IntegerMsg)}
          /\ (req.route = "unary" => Len(sent) = 1)

C9_Witness ==
    /\ IsRelay
    /\ Len(sent) = 1
    /\ sent[1].payload["projectId"] = IntV(0 - 1)

\* C10: a streaming request opens the upstream at most once; once the
\* generator has ended, however it ended, neither the upstream response nor
\* the client is open; after the caller has disconnected nothing more is
\* yielded or sent, and the response and the client are eventually closed.
C10_Released ==
    /\ [](req.route = "stream" => Len(sent) <= 1)
    /\ [](pc = "done" => ~clientOpen /\ ~respOpen)
    /\ [][~connected => (out' = out /\ sent' = sent)]_vars
    /\ (~connected ~> (~clientOpen /\ ~respOpen))

C10_Witness ==
    /\ ended = "cancelled"
    /\ Len(received) >= 1
    /\ out = received
    /\ Len(sent) = 1
    /\ ~clientOpen
    /\ ~respOpen

=============================================================================
